---- MODULE Spec2Model ----
(***************************************************************************)
(* macromate: hotkey-triggered capture of input events (recorder.rs),      *)
(* timed replay through a virtual device (player.rs, main.rs) and the      *)
(* line-oriented macro DSL (storage.rs).                                   *)
(***************************************************************************)
EXTENDS Integers, Sequences, FiniteSets, TLC

\* ------------------------------------------------------------------ bounds
MaxBatch == 2       \* events one fetch_events() call can deliver
MaxLog == 2         \* events the environment lets a session accumulate
MaxTime == 2        \* last reading of the monotonic clock, in microseconds
MaxPlayLen == 3     \* events in a log handed to play()
MaxStamp == 2       \* largest timestamp_us in such a log
MaxPasses == 3      \* play() calls counted (the count saturates there)
MaxStates == 2      \* Macro States handed to save
MaxLines == 3       \* lines of a hand-written macro file
MaxAmount == 2      \* largest small scroll amount, either sign

\* ------------------------------------------------------------ small helpers
Min(a, b) == IF a < b THEN a ELSE b

SeqsUpTo(S, n) == UNION {[1..k -> S] : k \in 0..n}

\* ===========================================================================
\* Capture engine: recorder.rs
\* ===========================================================================
VARIABLES
    devices,        \* Recorder.devices: attached sources, in attachment order
    start_time,     \* Recorder.start_time: None, or the clock reading at start
    events,         \* Recorder.events: the recorded log
    now,            \* the monotonic clock (Instant::now()), in microseconds
    pc,             \* position of the caller: "ready", or inside poll()
    dev_idx,        \* poll(): index of the device the for-loop is at
    pending,        \* poll(): events fetched from that device, not yet handled
    state_changed,  \* poll(): the local of that name
    ret,            \* value returned by the call that finished last
    op,             \* the step taken last
    fetch_result,   \* what the last fetch_events() reported
    failed,         \* devices whose fetch_events() failed in this poll()
    visited,        \* devices fetched from so far in this poll(), in order
    flipped,        \* whether is_recording() changed during this poll()
    saw_press,      \* whether this poll() handled a press of the toggle key
    rec_at_entry    \* is_recording() when this poll() was entered

recVars == <<devices, start_time, events, now, pc, dev_idx, pending,
             state_changed, ret, op, fetch_result, failed,
             visited, flipped, saw_press, rec_at_entry>>

VARIABLES
    loaded,         \* play_macro: `events`, the log storage::load returned
    loop_forever,   \* play_macro: the --loop flag
    ppc,            \* position in play_macro / Player::play
    idx,            \* play(): index of `recorded` in the for-loop
    last_timestamp, \* play(): the local of that name
    trace,          \* what this play() call did so far: sleeps and emissions
    play_ret,       \* value the last play() returned
    passes,         \* play() calls made so far (saturating at MaxPasses)
    exit_status     \* value play_macro returned

playVars == <<loaded, loop_forever, ppc, idx, last_timestamp, trace, play_ret,
              passes, exit_status>>

VARIABLES
    macro_states,    \* save: the states events_to_states produced
    overflow_checks, \* whether the build panics on arithmetic overflow
    file,            \* the text of the macro file
    src_lines,       \* the lines a hand-written file was put together from
    cpc,             \* position: "save", "load", "done" or "panicked"
    parsed,          \* load: the local `states` when the loop was left
    load_ret         \* value load returned

codecVars == <<macro_states, overflow_checks, file, src_lines, cpc, parsed,
               load_ret>>

\* What the steps of one component leave alone.
notRecVars == <<playVars, codecVars>>
notPlayVars == <<recVars, codecVars>>
notCodecVars == <<recVars, playVars>>

\* Option<Instant>: None is the empty tuple, Some(t) the one-tuple of t.
None == <<>>
Some(t) == <<t>>

\* The /dev/input nodes the enumeration in record_macro can hand over.
DevicePaths == {"event0", "event1"}

KEY_F1 == "KEY_F1"
KEY_W == "KEY_W"

\* evdev InputEvent, as destructure() sees it: a key event carries the key
\* and a value (0 release, 1 press, 2 autorepeat); anything else is not a
\* Key summary.
KeyEvent(k, v) == [kind |-> "key", code |-> k, value |-> v]
RelEvent == [kind |-> "rel", code |-> "REL_X", value |-> 1]

InputEvents ==
    {KeyEvent(KEY_F1, 0), KeyEvent(KEY_F1, 1), KeyEvent(KEY_F1, 2),
     KeyEvent(KEY_W, 1), RelEvent}

RecordedEvent(ts, e) == [timestamp_us |-> ts, event |-> e]

\* The clock never runs backwards; a reading is the last one or later.
ClockReadings == now..Min(now + 1, MaxTime)

is_recording == start_time # None

IsTogglePress(e) == e.kind = "key" /\ e.code = KEY_F1 /\ e.value = 1

\* Recorder::new
RecorderNew ==
    /\ devices = <<>>
    /\ start_time = None
    /\ events = <<>>

\* Return values: nothing returned yet, and Ok(()).
NoValue == [tag |-> "None"]
Unit == [tag |-> "Ok", value |-> "()"]

\* The locals of a poll() call that has returned no longer exist.
PollLocalsGone ==
    /\ dev_idx' = 1
    /\ pending' = <<>>
    /\ state_changed' = FALSE
    /\ visited' = <<>>
    /\ flipped' = FALSE
    /\ saw_press' = FALSE
    /\ rec_at_entry' = FALSE
    /\ fetch_result' = "none"
    /\ failed' = {}

\* Recorder::add_device: Device::open / set_nonblocking may fail (the `?`),
\* and then nothing is pushed.
add_device(path) ==
    /\ pc = "ready"
    /\ \A i \in 1..Len(devices) : devices[i] # path
    /\ \E opened \in BOOLEAN :
          /\ devices' = IF opened THEN Append(devices, path) ELSE devices
          /\ ret' = IF opened THEN Unit ELSE [tag |-> "Err"]
    /\ op' = "add_device"
    /\ PollLocalsGone
    /\ UNCHANGED <<start_time, events, now, pc>>
    /\ UNCHANGED notRecVars

\* Recorder::start
start ==
    /\ pc = "ready"
    /\ \E t \in ClockReadings :
          /\ now' = t
          /\ start_time' = Some(t)
    /\ events' = <<>>
    /\ ret' = Unit
    /\ op' = "start"
    /\ PollLocalsGone
    /\ UNCHANGED <<devices, pc>>
    /\ UNCHANGED notRecVars

\* Recorder::poll, entry: `let mut state_changed = false` and the for-loop
\* over self.devices begins.
PollBegin ==
    /\ pc = "ready"
    /\ pc' = "fetch"
    /\ state_changed' = FALSE
    /\ dev_idx' = 1
    /\ pending' = <<>>
    /\ visited' = <<>>
    /\ flipped' = FALSE
    /\ saw_press' = FALSE
    /\ rec_at_entry' = is_recording
    /\ fetch_result' = "none"
    /\ failed' = {}
    /\ ret' = NoValue
    /\ op' = "poll_begin"
    /\ UNCHANGED <<devices, start_time, events, now>>
    /\ UNCHANGED notRecVars

\* Batches the environment can deliver: the log stays within MaxLog.
Batches ==
    {b \in SeqsUpTo(InputEvents, MaxBatch) :
        Cardinality({i \in 1..Len(b) : ~IsTogglePress(b[i])})
            <= MaxLog - Len(events)}

\* device.fetch_events() returned Ok(events)
FetchOk ==
    /\ pc = "fetch"
    /\ dev_idx <= Len(devices)
    /\ \E b \in Batches :
          /\ pending' = b
          /\ pc' = IF b = <<>> THEN "fetch" ELSE "process"
          /\ dev_idx' = IF b = <<>> THEN dev_idx + 1 ELSE dev_idx
    /\ visited' = Append(visited, devices[dev_idx])
    /\ fetch_result' = "ok"
    /\ op' = "fetch"
    /\ UNCHANGED <<devices, start_time, events, now, state_changed, ret,
                   failed, flipped, saw_press, rec_at_entry>>
    /\ UNCHANGED notRecVars

\* Mutant of FetchErr: a read failure other than WouldBlock is propagated,
\* as `?` would: poll() returns Err and the later devices are not drained.
FetchErrAborts ==
    /\ pc = "fetch"
    /\ dev_idx <= Len(devices)
    /\ visited' = Append(visited, devices[dev_idx])
    /\ failed' = failed \cup {devices[dev_idx]}
    /\ \E r \in {"would_block", "error"} :
          /\ fetch_result' = r
          /\ pc' = IF r = "error" THEN "ready" ELSE pc
          /\ ret' = IF r = "error" THEN [tag |-> "Err"] ELSE ret
          /\ op' = IF r = "error" THEN "poll_return" ELSE "fetch"
          /\ dev_idx' = IF r = "error" THEN dev_idx ELSE dev_idx + 1
    /\ UNCHANGED <<devices, start_time, events, now, pending, state_changed,
                   flipped, saw_press, rec_at_entry>>
    /\ UNCHANGED notRecVars

\* device.fetch_events() returned Err: WouldBlock is skipped with `continue`,
\* any other error is printed; both go on to the next device.
FetchErr ==
    /\ pc = "fetch"
    /\ dev_idx <= Len(devices)
    /\ \E r \in {"would_block", "error"} : fetch_result' = r
    /\ visited' = Append(visited, devices[dev_idx])
    /\ failed' = failed \cup {devices[dev_idx]}
    /\ dev_idx' = dev_idx + 1
    /\ op' = "fetch"
    /\ UNCHANGED <<devices, start_time, events, now, pc, pending, state_changed,
                   ret, flipped, saw_press, rec_at_entry>>
    /\ UNCHANGED notRecVars

\* Mutant of TogglePress: the stop branch forgets `state_changed = true`.
TogglePressSilentStop(t) ==
    /\ IF start_time = None
          THEN /\ start_time' = Some(t)
               /\ events' = <<>>
               /\ state_changed' = TRUE
          ELSE /\ start_time' = None
               /\ events' = events
               /\ state_changed' = state_changed

\* The toggle branch of the loop body: Key(_, KEY_F1, 1).
TogglePress(t) ==
    /\ IF start_time = None
          THEN /\ start_time' = Some(t)
               /\ events' = <<>>
               /\ state_changed' = TRUE
          ELSE /\ start_time' = None
               /\ events' = events
               /\ state_changed' = TRUE

\* Mutant of RecordEvent: the event is stamped with the clock reading itself
\* instead of the time elapsed since the session began.
RecordEventAbsolute(e, t) ==
    /\ IF start_time # None
          THEN events' = Append(events, RecordedEvent(t, e))
          ELSE events' = events
    /\ UNCHANGED <<start_time, state_changed>>

\* The rest of the loop body: record the event if currently recording.
RecordEvent(e, t) ==
    /\ IF start_time # None
          THEN events' = Append(events, RecordedEvent(t - start_time[1], e))
          ELSE events' = events
    /\ UNCHANGED <<start_time, state_changed>>

\* One iteration of `for event in events`.
ProcessEvent ==
    /\ pc = "process"
    /\ pending # <<>>
    /\ LET e == Head(pending) IN
          \E t \in ClockReadings :
             /\ now' = t
             /\ IF e.kind = "key" /\ e.code = KEY_F1 /\ e.value = 1
                   THEN TogglePress(t)
                   ELSE RecordEvent(e, t)
             /\ saw_press' = (saw_press \/ IsTogglePress(e))
    /\ flipped' = (flipped \/ ((start_time = None) # (start_time' = None)))
    /\ pending' = Tail(pending)
    /\ pc' = IF Tail(pending) = <<>> THEN "fetch" ELSE "process"
    /\ dev_idx' = IF Tail(pending) = <<>> THEN dev_idx + 1 ELSE dev_idx
    /\ op' = "process"
    /\ UNCHANGED <<devices, ret, visited, rec_at_entry, fetch_result, failed>>
    /\ UNCHANGED notRecVars

\* Recorder::poll, exit: Ok(state_changed)
PollReturn ==
    /\ pc = "fetch"
    /\ dev_idx > Len(devices)
    /\ ret' = [tag |-> "Ok", value |-> state_changed]
    /\ pc' = "ready"
    /\ op' = "poll_return"
    /\ UNCHANGED <<devices, start_time, events, now, dev_idx, pending,
                   state_changed, visited, flipped, saw_press, rec_at_entry,
                   fetch_result, failed>>
    /\ UNCHANGED notRecVars

\* Mutant of stop: the log is cloned out instead of taken.
stopKeepsLog ==
    /\ pc = "ready"
    /\ start_time' = None
    /\ ret' = [tag |-> "Ok", value |-> events]
    /\ events' = events
    /\ op' = "stop"
    /\ PollLocalsGone
    /\ UNCHANGED <<devices, now, pc>>
    /\ UNCHANGED notRecVars

\* Recorder::stop
stop ==
    /\ pc = "ready"
    /\ start_time' = None
    /\ ret' = [tag |-> "Ok", value |-> events]
    /\ events' = <<>>
    /\ op' = "stop"
    /\ PollLocalsGone
    /\ UNCHANGED <<devices, now, pc>>
    /\ UNCHANGED notRecVars

RecInit ==
    /\ RecorderNew
    /\ now = 0
    /\ pc = "ready"
    /\ dev_idx = 1
    /\ pending = <<>>
    /\ state_changed = FALSE
    /\ ret = NoValue
    /\ op = "new"
    /\ fetch_result = "none"
    /\ failed = {}
    /\ visited = <<>>
    /\ flipped = FALSE
    /\ saw_press = FALSE
    /\ rec_at_entry = FALSE

RecNext ==
    \/ \E p \in DevicePaths : add_device(p)
    \/ start
    \/ PollBegin
    \/ FetchOk
    \/ FetchErr
    \/ ProcessEvent
    \/ PollReturn
    \/ stop

\* ------------------------------------------- record_macro in main.rs
\* The enumeration loop: one more device is handed to add_device.
RecordAttach ==
    /\ op \in {"new", "add_device"}
    /\ \E p \in DevicePaths : add_device(p)

\* `if state_changed { if recorder.is_recording() {..} else { break } }`
LoopBreaks == ret = [tag |-> "Ok", value |-> TRUE] /\ ~is_recording

\* The record loop calls poll(): the first time with at least one device
\* attached, and again after every poll() that did not break the loop.
RecordPoll ==
    /\ \/ op \in {"new", "add_device"} /\ Len(devices) > 0
       \/ op = "poll_return" /\ ~LoopBreaks
    /\ PollBegin

\* The loop was left: `let events = recorder.stop()`.
RecordStop ==
    /\ op = "poll_return"
    /\ LoopBreaks
    /\ stop

RecordNext ==
    \/ RecordAttach
    \/ RecordPoll
    \/ FetchOk
    \/ FetchErr
    \/ ProcessEvent
    \/ PollReturn
    \/ RecordStop

\* ===========================================================================
\* Replay engine: player.rs, and the loop of play_macro in main.rs
\* ===========================================================================
Sleep(us) == [kind |-> "sleep", us |-> us]
Emit(e, ok) == [kind |-> "emit", event |-> e, ok |-> ok]

\* u64::saturating_sub
saturating_sub(a, b) == IF a > b THEN a - b ELSE 0

PlayableEvents == {KeyEvent(KEY_W, 1), KeyEvent(KEY_W, 0)}

PlayableLogs ==
    SeqsUpTo({RecordedEvent(ts, e) : ts \in 0..MaxStamp, e \in PlayableEvents},
             MaxPlayLen)

\* play_macro up to Player::new: the log is loaded, the flag parsed.
PlayInit ==
    /\ loaded \in PlayableLogs
    /\ loop_forever \in BOOLEAN
    /\ ppc = "new"
    /\ idx = 1
    /\ last_timestamp = 0
    /\ trace = <<>>
    /\ play_ret = NoValue
    /\ passes = 0
    /\ exit_status = NoValue

\* Player::new("macromate-playback")?
PlayerNew ==
    /\ ppc = "new"
    /\ \E built \in BOOLEAN :
          /\ ppc' = IF built THEN "call" ELSE "exit"
          /\ exit_status' = IF built THEN exit_status ELSE [tag |-> "Err"]
    /\ UNCHANGED <<loaded, loop_forever, idx, last_timestamp, trace, play_ret,
                   passes>>
    /\ UNCHANGED notPlayVars

\* Player::play, entry: the empty log returns Ok at once, otherwise
\* last_timestamp = 0 and the for-loop begins.
PlayCall ==
    /\ ppc = "call"
    /\ passes' = Min(passes + 1, MaxPasses)
    /\ trace' = <<>>
    /\ idx' = 1
    /\ last_timestamp' = 0
    /\ IF loaded = <<>>
          THEN /\ play_ret' = Unit
               /\ ppc' = "returned"
          ELSE /\ play_ret' = NoValue
               /\ ppc' = "loop"
    /\ UNCHANGED <<loaded, loop_forever, exit_status>>
    /\ UNCHANGED notPlayVars

\* Mutant of PlayIter: a rejected emission is skipped and the pass goes on.
PlayIterSkipsFailure ==
    /\ ppc = "loop"
    /\ idx <= Len(loaded)
    /\ LET recorded == loaded[idx]
           delay_us == saturating_sub(recorded.timestamp_us, last_timestamp)
           slept == IF delay_us > 0 THEN <<Sleep(delay_us)>> ELSE <<>>
       IN  \E emitted \in BOOLEAN :
              /\ trace' = trace \o slept \o <<Emit(recorded.event, emitted)>>
              /\ last_timestamp' = recorded.timestamp_us
              /\ idx' = idx + 1
              /\ UNCHANGED <<ppc, play_ret>>
    /\ UNCHANGED <<loaded, loop_forever, passes, exit_status>>
    /\ UNCHANGED notPlayVars

\* Mutant of PlayIter: the delay is taken from the start of the log, not
\* from the previous event (last_timestamp is not consulted).
PlayIterAbsoluteDelay ==
    /\ ppc = "loop"
    /\ idx <= Len(loaded)
    /\ LET recorded == loaded[idx]
           delay_us == recorded.timestamp_us
           slept == IF delay_us > 0 THEN <<Sleep(delay_us)>> ELSE <<>>
       IN  \E emitted \in BOOLEAN :
              /\ trace' = trace \o slept \o <<Emit(recorded.event, emitted)>>
              /\ IF emitted
                    THEN /\ last_timestamp' = recorded.timestamp_us
                         /\ idx' = idx + 1
                         /\ UNCHANGED <<ppc, play_ret>>
                    ELSE /\ play_ret' = [tag |-> "Err"]
                         /\ ppc' = "returned"
                         /\ UNCHANGED <<last_timestamp, idx>>
    /\ UNCHANGED <<loaded, loop_forever, passes, exit_status>>
    /\ UNCHANGED notPlayVars

\* Player::play, one iteration of `for recorded in events`: sleep for the
\* delay since the last event if it is positive, then emit; a rejected
\* emission returns the error (the `?`).
PlayIter ==
    /\ ppc = "loop"
    /\ idx <= Len(loaded)
    /\ LET recorded == loaded[idx]
           delay_us == saturating_sub(recorded.timestamp_us, last_timestamp)
           slept == IF delay_us > 0 THEN <<Sleep(delay_us)>> ELSE <<>>
       IN  \E emitted \in BOOLEAN :
              /\ trace' = trace \o slept \o <<Emit(recorded.event, emitted)>>
              /\ IF emitted
                    THEN /\ last_timestamp' = recorded.timestamp_us
                         /\ idx' = idx + 1
                         /\ UNCHANGED <<ppc, play_ret>>
                    ELSE /\ play_ret' = [tag |-> "Err"]
                         /\ ppc' = "returned"
                         /\ UNCHANGED <<last_timestamp, idx>>
    /\ UNCHANGED <<loaded, loop_forever, passes, exit_status>>
    /\ UNCHANGED notPlayVars

\* Player::play, exit: Ok(())
PlayDone ==
    /\ ppc = "loop"
    /\ idx > Len(loaded)
    /\ play_ret' = Unit
    /\ ppc' = "returned"
    /\ UNCHANGED <<loaded, loop_forever, idx, last_timestamp, trace, passes,
                   exit_status>>
    /\ UNCHANGED notPlayVars

\* Mutant of MacroLoop: the loop flag is not consulted, the loop breaks.
MacroLoopBreaks ==
    /\ ppc = "returned"
    /\ ppc' = "exit"
    /\ exit_status' = play_ret
    /\ UNCHANGED <<loaded, loop_forever, idx, last_timestamp, trace, play_ret,
                   passes>>
    /\ UNCHANGED notPlayVars

\* play_macro, the loop around player.play(&events)?: an error leaves the
\* function, otherwise loop again if loop_forever, else break and Ok(()).
MacroLoop ==
    /\ ppc = "returned"
    /\ IF play_ret.tag = "Err"
          THEN /\ ppc' = "exit"
               /\ exit_status' = play_ret
          ELSE IF loop_forever
                  THEN /\ ppc' = "call"
                       /\ UNCHANGED exit_status
                  ELSE /\ ppc' = "exit"
                       /\ exit_status' = Unit
    /\ UNCHANGED <<loaded, loop_forever, idx, last_timestamp, trace, play_ret,
                   passes>>
    /\ UNCHANGED notPlayVars

PlayNext ==
    \/ PlayerNew
    \/ PlayCall
    \/ PlayIter
    \/ PlayDone
    \/ MacroLoop

\* ===========================================================================
\* DSL codec: storage.rs.  Text is a string, read character by character.
\* ===========================================================================
I32Max == 2147483647
I32Min == -I32Max - 1

Char(s, i) == SubSeq(s, i, i)

\* char::is_whitespace, for the characters that occur in a line
Whitespace == {" ", "\t"}

\* str::starts_with / str::ends_with
StartsWith(s, p) == Len(p) <= Len(s) /\ SubSeq(s, 1, Len(p)) = p
EndsWith(s, p) == Len(p) <= Len(s) /\ SubSeq(s, Len(s) - Len(p) + 1, Len(s)) = p

\* str::strip_prefix / str::strip_suffix: None, or Some(the rest)
strip_prefix(s, p) ==
    IF StartsWith(s, p) THEN Some(SubSeq(s, Len(p) + 1, Len(s))) ELSE None
strip_suffix(s, p) ==
    IF EndsWith(s, p) THEN Some(SubSeq(s, 1, Len(s) - Len(p))) ELSE None

RECURSIVE trim_start(_)
trim_start(s) ==
    IF Len(s) > 0 /\ Char(s, 1) \in Whitespace
       THEN trim_start(SubSeq(s, 2, Len(s)))
       ELSE s

RECURSIVE trim_end(_)
trim_end(s) ==
    IF Len(s) > 0 /\ Char(s, Len(s)) \in Whitespace
       THEN trim_end(SubSeq(s, 1, Len(s) - 1))
       ELSE s

\* str::trim
trim(s) == trim_end(trim_start(s))

\* str::find: index of the first occurrence of pat in s, 0 if there is none
RECURSIVE FindFrom(_, _, _)
FindFrom(s, pat, i) ==
    IF i + Len(pat) - 1 > Len(s) THEN 0
    ELSE IF SubSeq(s, i, i + Len(pat) - 1) = pat THEN i
    ELSE FindFrom(s, pat, i + 1)

Find(s, pat) == FindFrom(s, pat, 1)

\* str::split(pat).collect()
RECURSIVE split(_, _)
split(s, pat) ==
    LET i == Find(s, pat)
    IN  IF i = 0 THEN <<s>>
        ELSE <<SubSeq(s, 1, i - 1)>> \o split(SubSeq(s, i + Len(pat), Len(s)), pat)

\* str::split_whitespace().collect()
RECURSIVE split_whitespace(_)
split_whitespace(s) ==
    LET t == trim_start(s)
        sp == Find(t, " ")
        tab == Find(t, "\t")
        cut == IF sp = 0 /\ tab = 0 THEN Len(t) + 1
               ELSE IF sp = 0 THEN tab
               ELSE IF tab = 0 THEN sp
               ELSE Min(sp, tab)
    IN  IF Len(t) = 0 THEN <<>>
        ELSE <<SubSeq(t, 1, cut - 1)>>
                \o split_whitespace(SubSeq(t, cut, Len(t)))

\* BufRead::lines(): the text cut at "\n"; a final newline ends the last
\* line and begins no further one.
lines(text) ==
    LET parts == split(text, "\n")
    IN  IF parts[Len(parts)] = "" THEN SubSeq(parts, 1, Len(parts) - 1)
        ELSE parts

\* [String]::join
RECURSIVE join(_, _)
join(parts, sep) ==
    IF Len(parts) = 0 THEN ""
    ELSE IF Len(parts) = 1 THEN parts[1]
    ELSE parts[1] \o sep \o join(Tail(parts), sep)

Digits == "0123456789"

IsDigit(c) == \E d \in 1..10 : Char(Digits, d) = c

DigitValue(c) == (CHOOSE d \in 1..10 : Char(Digits, d) = c) - 1

AllDigits(s) == Len(s) > 0 /\ \A i \in 1..Len(s) : IsDigit(Char(s, i))

\* Display for an unsigned integer
RECURSIVE DisplayNat(_)
DisplayNat(n) ==
    IF n < 10 THEN Char(Digits, n + 1)
    ELSE DisplayNat(n \div 10) \o Char(Digits, (n % 10) + 1)

\* Display for i32: the digits of a negative number are taken without
\* negating it, so that i32::MIN is printed too.
DisplayI32(n) ==
    IF n >= 0 THEN DisplayNat(n)
    ELSE LET d == (10 - (n % 10)) % 10
             q == (-(n + d)) \div 10
         IN  "-" \o (IF q = 0 THEN "" ELSE DisplayNat(q)) \o Char(Digits, d + 1)

\* The digits of s, most significant first, as a number.
RECURSIVE NatOfDigits(_)
NatOfDigits(s) ==
    IF Len(s) = 0 THEN 0
    ELSE 10 * NatOfDigits(SubSeq(s, 1, Len(s) - 1)) + DigitValue(Char(s, Len(s)))

\* str::parse::<u64>: an optional "+", then one or more digits.  The lines
\* of the model hold numbers far below 2^64, where its overflow error lies.
parse_u64(s) ==
    LET body == IF StartsWith(s, "+") THEN SubSeq(s, 2, Len(s)) ELSE s
    IN  IF AllDigits(body) THEN Some(NatOfDigits(body)) ELSE None

\* The digits of s accumulated away from zero on the negative side, as
\* i32::from_str does for "-...": None as soon as i32::MIN is passed.
RECURSIVE NegOfDigits(_)
NegOfDigits(s) ==
    IF Len(s) = 0 THEN Some(0)
    ELSE LET acc == NegOfDigits(SubSeq(s, 1, Len(s) - 1))
             d == DigitValue(Char(s, Len(s)))
             most == IF d = 0 THEN I32Max \div 10 ELSE (I32Max - d + 1) \div 10
         IN  IF acc = None \/ -acc[1] > most THEN None
             ELSE Some(acc[1] * 10 - d)

\* The same on the positive side: None as soon as i32::MAX is passed.
RECURSIVE PosOfDigits(_)
PosOfDigits(s) ==
    IF Len(s) = 0 THEN Some(0)
    ELSE LET acc == PosOfDigits(SubSeq(s, 1, Len(s) - 1))
             d == DigitValue(Char(s, Len(s)))
         IN  IF acc = None \/ acc[1] > (I32Max - d) \div 10 THEN None
             ELSE Some(acc[1] * 10 + d)

\* str::parse::<i32>: an optional sign, then one or more digits, in range.
parse_i32(s) ==
    LET signed == StartsWith(s, "+") \/ StartsWith(s, "-")
        body == IF signed THEN SubSeq(s, 2, Len(s)) ELSE s
    IN  IF ~AllDigits(body) THEN None
        ELSE IF StartsWith(s, "-") THEN NegOfDigits(body)
        ELSE PosOfDigits(body)

\* Result values
Ok(v) == [tag |-> "Ok", value |-> v]
Err(m) == [tag |-> "Err", msg |-> m]
\* An arithmetic overflow under a build with overflow checks
Panic == [tag |-> "Panic"]

\* ------------------------------------------------------------- Key Catalog
\* keymap: the names and codes the tests of storage.rs use.
KEY_CODE_W == 17
KEY_CODE_A == 30

KeyCatalog ==
    {[name |-> "A", code |-> KEY_CODE_A], [name |-> "W", code |-> KEY_CODE_W]}

\* keymap::keycode_to_name
keycode_to_name(code) ==
    IF \E k \in KeyCatalog : k.code = code
       THEN Some((CHOOSE k \in KeyCatalog : k.code = code).name)
       ELSE None

\* keymap::name_to_keycode
name_to_keycode(name) ==
    IF \E k \in KeyCatalog : k.name = name
       THEN Some((CHOOSE k \in KeyCatalog : k.name = name).code)
       ELSE None

\* ------------------------------------------------------------ Macro states
MacroState(d, keys, mouse, scroll) ==
    [duration_ms |-> d, keys_pressed |-> keys, mouse_delta |-> mouse,
     scroll_delta |-> scroll]

\* Order of String: byte by byte, a proper prefix first.
AsciiOrder == "+-0123456789ABCDEFGHIJKLMNOPQRSTUVWXYZ_abcdefghijklmnopqrstuvwxyz"

Ord(c) == CHOOSE i \in 1..Len(AsciiOrder) : Char(AsciiOrder, i) = c

RECURSIVE StrLess(_, _)
StrLess(a, b) ==
    IF Len(b) = 0 THEN FALSE
    ELSE IF Len(a) = 0 THEN TRUE
    ELSE IF Char(a, 1) # Char(b, 1) THEN Ord(Char(a, 1)) < Ord(Char(b, 1))
    ELSE StrLess(SubSeq(a, 2, Len(a)), SubSeq(b, 2, Len(b)))

\* Vec<String>::sort of the names in a set
RECURSIVE SortedNames(_)
SortedNames(S) ==
    IF S = {} THEN <<>>
    ELSE LET least == CHOOSE x \in S : \A y \in S \ {x} : StrLess(x, y)
         IN  <<least>> \o SortedNames(S \ {least})

\* Mutant of wrapping_abs: the sign is kept.
wrapping_abs_forgotten(x) == x

\* i32::abs without overflow checks: i32::MIN stays i32::MIN
wrapping_abs(x) == IF x = I32Min THEN I32Min ELSE IF x < 0 THEN -x ELSE x

\* Mutant of wrapping_neg: the minus sign is forgotten.
wrapping_neg_forgotten(x) == x

\* i32 negation without overflow checks
wrapping_neg(x) == IF x = I32Min THEN I32Min ELSE -x

\* format_state.  With overflow checks, abs() of i32::MIN panics.
format_state(state, checks) ==
    LET keys == state.keys_pressed
        d == state.duration_ms
        names == {keycode_to_name(c)[1] :
                     c \in {k \in keys : keycode_to_name(k) # None}}
        joined == join(SortedNames(names), "+")
        keyPart == IF keys = {} THEN <<>>
                   ELSE IF d > 0
                        THEN <<"hold " \o joined \o " for " \o DisplayNat(d) \o "ms">>
                        ELSE <<"tap " \o joined>>
        movePart == IF state.mouse_delta # <<0, 0>>
                    THEN <<"move " \o DisplayI32(state.mouse_delta[1]) \o " "
                                  \o DisplayI32(state.mouse_delta[2])>>
                    ELSE <<>>
        v == state.scroll_delta[1]
        h == state.scroll_delta[2]
        vPart == IF v # 0
                 THEN <<"scroll " \o (IF v > 0 THEN "up" ELSE "down") \o " "
                                 \o DisplayI32(wrapping_abs(v))>>
                 ELSE <<>>
        hPart == IF h # 0
                 THEN <<"scroll " \o (IF h > 0 THEN "right" ELSE "left") \o " "
                                 \o DisplayI32(wrapping_abs(h))>>
                 ELSE <<>>
        result == join(keyPart \o movePart \o vPart \o hPart, " ")
    IN  IF keys = {} /\ state.mouse_delta = <<0, 0>> /\ state.scroll_delta = <<0, 0>>
           THEN IF d > 0 THEN Ok("wait " \o DisplayNat(d) \o "ms")
                ELSE Ok("# empty state")
        ELSE IF checks /\ (v = I32Min \/ h = I32Min) THEN Panic
        ELSE IF result = ""
           THEN IF d > 0 THEN Ok("wait " \o DisplayNat(d) \o "ms")
                ELSE Ok("# empty state")
        ELSE IF d > 0 /\ keys = {}
           THEN Ok(result \o "\nwait " \o DisplayNat(d) \o "ms")
        ELSE Ok(result)

\* Mutant of parse_duration: a number without a unit is taken as
\* milliseconds.
parse_duration_unit_optional(s) ==
    IF strip_suffix(s, "ms") # None
       THEN LET n == parse_u64(strip_suffix(s, "ms")[1])
            IN  IF n = None THEN Err("Invalid duration: " \o s) ELSE Ok(n[1])
    ELSE IF strip_suffix(s, "s") # None
       THEN LET n == parse_u64(strip_suffix(s, "s")[1])
            IN  IF n = None THEN Err("Invalid duration: " \o s)
                ELSE Ok(n[1] * 1000)
    ELSE LET n == parse_u64(s)
         IN  IF n = None THEN Err("Duration must end with 'ms' or 's': " \o s)
             ELSE Ok(n[1])

\* parse_duration
parse_duration(s) ==
    IF strip_suffix(s, "ms") # None
       THEN LET n == parse_u64(strip_suffix(s, "ms")[1])
            IN  IF n = None THEN Err("Invalid duration: " \o s) ELSE Ok(n[1])
    ELSE IF strip_suffix(s, "s") # None
       THEN LET n == parse_u64(strip_suffix(s, "s")[1])
            IN  IF n = None THEN Err("Invalid duration: " \o s)
                ELSE Ok(n[1] * 1000)
    ELSE Err("Duration must end with 'ms' or 's': " \o s)

\* parse_keys: the first name the catalog does not know is the error.
parse_keys(s) ==
    LET key_names == split(s, "+")
        name(i) == trim(key_names[i])
        unknown == {i \in 1..Len(key_names) : name_to_keycode(name(i)) = None}
    IN  IF unknown # {}
           THEN Err("Unknown key: "
                    \o name(CHOOSE i \in unknown : \A j \in unknown : i <= j))
           ELSE Ok({name_to_keycode(name(i))[1] : i \in 1..Len(key_names)})

\* parse_line.  With overflow checks, negating i32::MIN panics.
parse_line(raw, checks) ==
    LET line == trim(raw)
        hold == strip_prefix(line, "hold ")
        wait == strip_prefix(line, "wait ")
        move == strip_prefix(line, "move ")
        scroll == strip_prefix(line, "scroll ")
        tap == strip_prefix(line, "tap ")
    IN  IF hold # None THEN
            LET parts == split(hold[1], " for ") IN
            IF Len(parts) # 2 THEN Err("Invalid 'hold' syntax: " \o line)
            ELSE LET duration_ms == parse_duration(parts[2])
                     keys == parse_keys(parts[1])
                 IN  IF duration_ms.tag = "Err" THEN duration_ms
                     ELSE IF keys.tag = "Err" THEN keys
                     ELSE Ok(MacroState(duration_ms.value, keys.value,
                                        <<0, 0>>, <<0, 0>>))
        ELSE IF wait # None THEN
            LET duration_ms == parse_duration(wait[1])
            IN  IF duration_ms.tag = "Err" THEN duration_ms
                ELSE Ok(MacroState(duration_ms.value, {}, <<0, 0>>, <<0, 0>>))
        ELSE IF move # None THEN
            LET parts == split_whitespace(move[1]) IN
            IF Len(parts) # 2 THEN Err("Invalid 'move' syntax: " \o line)
            ELSE LET x == parse_i32(parts[1])
                     y == parse_i32(parts[2])
                 IN  IF x = None THEN Err("Invalid X coordinate: " \o parts[1])
                     ELSE IF y = None
                        THEN Err("Invalid Y coordinate: " \o parts[2])
                     ELSE Ok(MacroState(0, {}, <<x[1], y[1]>>, <<0, 0>>))
        ELSE IF scroll # None THEN
            LET parts == split_whitespace(scroll[1]) IN
            IF Len(parts) # 2 THEN Err("Invalid 'scroll' syntax: " \o line)
            ELSE LET direction == parts[1]
                     amount == parse_i32(parts[2])
                 IN  IF amount = None
                        THEN Err("Invalid scroll amount: " \o parts[2])
                     ELSE IF direction \notin {"up", "down", "left", "right"}
                        THEN Err("Invalid scroll direction '" \o direction
                                 \o "', use up/down/left/right")
                     ELSE IF /\ direction \in {"down", "left"}
                             /\ amount[1] = I32Min
                             /\ checks
                        THEN Panic
                     ELSE Ok(MacroState(0, {}, <<0, 0>>,
                             CASE direction = "up" -> <<amount[1], 0>>
                               [] direction = "down" -> <<wrapping_neg(amount[1]), 0>>
                               [] direction = "left" -> <<0, wrapping_neg(amount[1])>>
                               [] direction = "right" -> <<0, amount[1]>>))
        ELSE IF tap # None THEN
            LET keys == parse_keys(tap[1])
            IN  IF keys.tag = "Err" THEN keys
                ELSE Ok(MacroState(0, keys.value, <<0, 0>>, <<0, 0>>))
        ELSE Err("Unknown command: " \o line)

\* ------------------------------------------------- expansion (state module)
\* The members of a set of numbers, ascending.
RECURSIVE Ascending(_)
Ascending(S) ==
    IF S = {} THEN <<>>
    ELSE LET least == CHOOSE x \in S : \A y \in S : x <= y
         IN  <<least>> \o Ascending(S \ {least})

KeyChanges(keys, pressed, clock) ==
    LET ks == Ascending(keys)
    IN  [i \in 1..Len(ks) |->
            RecordedEvent(clock, KeyEvent(ks[i], IF pressed THEN 1 ELSE 0))]

AxisEvent(axis, delta, clock) ==
    IF delta = 0 THEN <<>>
    ELSE <<RecordedEvent(clock, [kind |-> "rel", code |-> axis, value |-> delta])>>

\* state::states_to_events: per state the key presses, the motion and the
\* scroll at the running clock, the key releases duration_ms later.
RECURSIVE states_to_events_at(_, _)
states_to_events_at(states, clock) ==
    IF Len(states) = 0 THEN <<>>
    ELSE LET st == Head(states)
             end == clock + st.duration_ms * 1000
         IN  KeyChanges(st.keys_pressed, TRUE, clock)
             \o AxisEvent("REL_X", st.mouse_delta[1], clock)
             \o AxisEvent("REL_Y", st.mouse_delta[2], clock)
             \o AxisEvent("REL_WHEEL", st.scroll_delta[1], clock)
             \o AxisEvent("REL_HWHEEL", st.scroll_delta[2], clock)
             \o KeyChanges(st.keys_pressed, FALSE, end)
             \o states_to_events_at(Tail(states), end)

states_to_events(states) == states_to_events_at(states, 0)

\* ------------------------------------------------------------ save and load
\* The lines save writes for the states: one writeln! per state.
RECURSIVE StateLines(_, _)
StateLines(states, checks) ==
    IF Len(states) = 0 THEN Ok("")
    ELSE LET line == format_state(Head(states), checks)
             rest == StateLines(Tail(states), checks)
         IN  IF line.tag = "Panic" \/ rest.tag = "Panic" THEN Panic
             ELSE Ok(line.value \o "\n" \o rest.value)

\* save, from the states on: the header, then the states.
save ==
    /\ cpc = "save"
    /\ LET body == StateLines(macro_states, overflow_checks)
       IN  IF body.tag = "Panic"
              THEN /\ cpc' = "panicked"
                   /\ file' = file
              ELSE /\ cpc' = "load"
                   /\ file' = "# EvKey Macro\n# Layout: QWERTY\n\n" \o body.value
    /\ UNCHANGED <<macro_states, overflow_checks, src_lines, parsed, load_ret>>
    /\ UNCHANGED notCodecVars

\* Mutant of ParseLines: the error counts the instruction lines only, not
\* the blank and comment lines before them.
RECURSIVE ParseLinesCountsInstructions(_, _, _, _)
ParseLinesCountsInstructions(ls, line_num, states, checks) ==
    IF line_num >= Len(ls) THEN Ok(states)
    ELSE LET line == trim(ls[line_num + 1])
             r == parse_line(line, checks)
         IN  IF Len(line) = 0 \/ StartsWith(line, "#")
                THEN ParseLinesCountsInstructions(SubSeq(ls, 1, line_num)
                        \o SubSeq(ls, line_num + 2, Len(ls)),
                        line_num, states, checks)
             ELSE IF r.tag = "Ok"
                THEN ParseLinesCountsInstructions(ls, line_num + 1,
                        Append(states, r.value), checks)
             ELSE IF r.tag = "Err"
                THEN Err("Line " \o DisplayNat(line_num + 1) \o ": " \o r.msg)
             ELSE Panic

\* load, the loop `for (line_num, line) in reader.lines().enumerate()`,
\* from iteration line_num on with `states` as collected so far.
RECURSIVE ParseLines(_, _, _, _)
ParseLines(ls, line_num, states, checks) ==
    IF line_num >= Len(ls) THEN Ok(states)
    ELSE LET line == trim(ls[line_num + 1])
             r == parse_line(line, checks)
         IN  IF Len(line) = 0 \/ StartsWith(line, "#")
                THEN ParseLines(ls, line_num + 1, states, checks)
             ELSE IF r.tag = "Ok"
                THEN ParseLines(ls, line_num + 1, Append(states, r.value), checks)
             ELSE IF r.tag = "Err"
                THEN Err("Line " \o DisplayNat(line_num + 1) \o ": " \o r.msg)
             ELSE Panic

\* load
load ==
    /\ cpc = "load"
    /\ parsed' = ParseLines(lines(file), 0, <<>>, overflow_checks)
    /\ load_ret' = IF parsed'.tag = "Ok"
                      THEN Ok(states_to_events(parsed'.value))
                      ELSE parsed'
    /\ cpc' = IF parsed'.tag = "Panic" THEN "panicked" ELSE "done"
    /\ UNCHANGED <<macro_states, overflow_checks, file, src_lines>>
    /\ UNCHANGED notCodecVars

\* Keys a state can hold: two the catalog names, one it does not.
UnnamedKey == 767
StateKeys == {{}, {KEY_CODE_W, KEY_CODE_A}, {UnnamedKey}}
StateDurations == {0, 5}
StateMotions == {<<0, 0>>, <<I32Min, 5>>}
StateScrolls == {<<0, 0>>, <<0, -2>>, <<-1, 4>>, <<I32Min, 0>>}

StatePool ==
    {MacroState(d, k, m, sc) :
        d \in StateDurations, k \in StateKeys, m \in StateMotions,
        sc \in StateScrolls}

\* Lines of a hand-written file, each with whether it is a malformed
\* instruction.
Line(text, malformed) == [text |-> text, malformed |-> malformed]

LinePool ==
    {Line("hold W+A for 12ms", FALSE), Line("  wait 2s", FALSE),
     Line("move 10 -5", FALSE), Line("scroll up 3", FALSE),
     Line("", FALSE), Line("# note", FALSE),
     Line("hold W+NOSUCHKEY for 5ms", TRUE), Line("wait 100", TRUE),
     Line("wait xms", TRUE), Line("move 10", TRUE),
     Line("move 1 x", TRUE), Line("scroll 3", TRUE),
     Line("scroll up x", TRUE), Line("jump 5", TRUE)}

RECURSIVE FileOf(_)
FileOf(ls) ==
    IF Len(ls) = 0 THEN "" ELSE Head(ls).text \o "\n" \o FileOf(Tail(ls))

\* A codec that is not running.
CodecParked ==
    /\ macro_states = <<>>
    /\ overflow_checks = FALSE
    /\ file = ""
    /\ src_lines = <<>>
    /\ cpc = "done"
    /\ parsed = NoValue
    /\ load_ret = NoValue

\* save is about to write states.
CodecInit ==
    /\ macro_states \in SeqsUpTo(StatePool, MaxStates)
    /\ overflow_checks \in BOOLEAN
    /\ file = ""
    /\ src_lines = <<>>
    /\ cpc = "save"
    /\ parsed = NoValue
    /\ load_ret = NoValue

\* load is about to read a hand-written file.
LoadInit ==
    /\ macro_states = <<>>
    /\ overflow_checks \in BOOLEAN
    /\ src_lines \in SeqsUpTo(LinePool, MaxLines)
    /\ file = FileOf(src_lines)
    /\ cpc = "load"
    /\ parsed = NoValue
    /\ load_ret = NoValue

CodecNext == save \/ load

LoadNext == load

\* ------------------------------------------------ one scroll line, parsed
\* and written back
ScrollDirections == {"up", "down", "left", "right"}

ScrollAmounts == (-MaxAmount..MaxAmount) \cup {I32Max, I32Min + 1, I32Min}

ScrollLine(direction, amount) ==
    "scroll " \o direction \o " " \o DisplayI32(amount)

\* A scroll line is about to be parsed.
ScrollInit ==
    /\ macro_states = <<>>
    /\ overflow_checks \in BOOLEAN
    /\ \E direction \in ScrollDirections, amount \in ScrollAmounts :
          src_lines = <<Line(ScrollLine(direction, amount), FALSE)>>
    /\ file = ""
    /\ cpc = "parse"
    /\ parsed = NoValue
    /\ load_ret = NoValue

\* parse_line of the line; the state it returns is what save is given.
ParseScrollLine ==
    /\ cpc = "parse"
    /\ parsed' = parse_line(src_lines[1].text, overflow_checks)
    /\ macro_states' = IF parsed'.tag = "Ok" THEN <<parsed'.value>> ELSE <<>>
    /\ cpc' = CASE parsed'.tag = "Ok" -> "save"
                [] parsed'.tag = "Panic" -> "panicked"
                [] OTHER -> "done"
    /\ UNCHANGED <<overflow_checks, file, src_lines, load_ret>>
    /\ UNCHANGED notCodecVars

ScrollNext == ParseScrollLine \/ save

\* A replay engine that is not running.
PlayParked ==
    /\ loaded = <<>>
    /\ loop_forever = FALSE
    /\ ppc = "exit"
    /\ idx = 1
    /\ last_timestamp = 0
    /\ trace = <<>>
    /\ play_ret = NoValue
    /\ passes = 0
    /\ exit_status = NoValue

\* A capture engine that is not running.
RecParked == RecInit

vars == <<recVars, playVars, codecVars>>

\* The capture engine on its own.
Init == RecInit /\ PlayParked /\ CodecParked

Spec == Init /\ [][RecNext]_vars

\* The record loop of record_macro.
RecordSpecInit == RecInit /\ PlayParked /\ CodecParked

RecordSpec == RecordSpecInit /\ [][RecordNext]_vars

\* The replay engine on its own.
PlaySpecInit == PlayInit /\ RecParked /\ CodecParked

PlaySpec == PlaySpecInit /\ [][PlayNext]_vars

\* save followed by load.
CodecSpecInit == CodecInit /\ RecParked /\ PlayParked

CodecSpec == CodecSpecInit /\ [][CodecNext]_vars

\* load of a hand-written file.
LoadSpecInit == LoadInit /\ RecParked /\ PlayParked

LoadSpec == LoadSpecInit /\ [][LoadNext]_vars

\* A scroll line parsed and written back.
ScrollSpecInit == ScrollInit /\ RecParked /\ PlayParked

ScrollSpec == ScrollSpecInit /\ [][ScrollNext]_vars

\* ---------------------------------------------------------------------------
\* Claims about the capture engine
\* ---------------------------------------------------------------------------
IsToggleKey(e) == e.kind = "key" /\ e.code = KEY_F1

NoToggleKeyIn(log) == \A i \in 1..Len(log) : ~IsToggleKey(log[i].event)

\* C1: no event of the toggle key (press, release or autorepeat) is ever in
\* the recorded log, nor in the log stop() returns.
C1_NoToggleKeyInLog ==
    /\ NoToggleKeyIn(events)
    /\ op = "stop" => NoToggleKeyIn(ret.value)

NonDecreasing(log) ==
    \A i \in 1..Len(log) : \A j \in i..Len(log) :
        log[i].timestamp_us <= log[j].timestamp_us

\* A step that begins a session: Idle -> Recording, or a start() call.
SessionStartStep == (~is_recording /\ is_recording') \/ op' = "start"

\* What a step does to the log when it begins or continues a session.
SessionLogStep ==
    /\ SessionStartStep => events' = <<>> /\ start_time' = Some(now')
    /\ (~SessionStartStep /\ is_recording') =>
          /\ start_time' = start_time
          /\ \/ events' = events
             \/ \E e \in InputEvents :
                   events' = Append(events,
                                    RecordedEvent(now' - start_time[1], e))
    /\ NonDecreasing(events')

\* C2 as stated: the log is the current session's events, and while Idle
\* (after Recording -> Idle, until the next Idle -> Recording) no step
\* changes it.
C2_LogFrozenWhileIdle ==
    [][SessionLogStep /\ (~is_recording' => events' = events)]_vars

\* C2 as amended: the same, except that stop() empties the log.
C2_LogIsCurrentSession ==
    [][/\ SessionLogStep
       /\ (~is_recording' /\ op' # "stop") => events' = events
       /\ op' = "stop" => events' = <<>>]_vars

\* A poll() has returned in Idle with the frozen log of the session that
\* ended in it, holding events stamped at different times.
C2_Witness ==
    /\ op = "poll_return"
    /\ ~is_recording
    /\ Len(events) = 2
    /\ events[1].timestamp_us < events[2].timestamp_us

\* C3: poll() returns true exactly when the recording state flipped during
\* the call; with no toggle-key press handled it returns false and
\* is_recording() is what it was on entry.
C3_PollReportsFlip ==
    op = "poll_return" =>
        /\ ret.tag = "Ok"
        /\ ret.value = flipped
        /\ ~saw_press => (ret.value = FALSE /\ is_recording = rec_at_entry)

\* A poll() that handled two presses returned true although is_recording()
\* ended where it began.
C3_Witness ==
    /\ op = "poll_return"
    /\ ret.value = TRUE
    /\ rec_at_entry
    /\ is_recording

\* C4: stop() returns the log as accumulated, leaves the engine Idle with an
\* empty log and the devices as they were; a stop() right after a stop()
\* returns the empty sequence.
C4_StopHandsOverLog ==
    [][op' = "stop" =>
          /\ ret' = [tag |-> "Ok", value |-> events]
          /\ events' = <<>>
          /\ ~is_recording'
          /\ devices' = devices
          /\ op = "stop" => ret'.value = <<>>]_vars

\* stop() has returned a log of two events, with a device attached.
C4_Witness ==
    /\ op = "stop"
    /\ Len(ret.value) = 2
    /\ devices # <<>>

\* C5: a source whose read fails (would-block or not) stays attached and
\* changes neither log nor recording state; poll() goes on to the next
\* source, visits all sources in attachment order and returns Ok.
C5_FailingSourceSkipped ==
    [][/\ (op' = "fetch" /\ fetch_result' \in {"would_block", "error"}) =>
             /\ devices' = devices
             /\ events' = events
             /\ start_time' = start_time
             /\ state_changed' = state_changed
             /\ pc' = "fetch"
             /\ dev_idx' = dev_idx + 1
       /\ op' = "poll_return" =>
             /\ ret'.tag = "Ok"
             /\ visited = devices]_vars

\* The first of two sources failed, the second one started a session and
\* logged an event in the same poll(), which returned Ok.
C5_Witness ==
    /\ op = "poll_return"
    /\ ret.tag = "Ok"
    /\ Len(devices) = 2
    /\ failed = {devices[1]}
    /\ visited = devices
    /\ ~rec_at_entry
    /\ is_recording
    /\ events # <<>>
\* ---------------------------------------------------------------------------
\* Claims about the replay engine
\* ---------------------------------------------------------------------------
IsEmit(x) == x.kind = "emit"

Emits(tr) == SelectSeq(tr, IsEmit)

\* Position in tr of its k-th emission (0 for k = 0).
EmitPos(tr, k) ==
    IF k = 0 THEN 0
    ELSE CHOOSE i \in 1..Len(tr) :
            /\ IsEmit(tr[i])
            /\ Cardinality({j \in 1..i : IsEmit(tr[j])}) = k

\* What tr holds between its (k-1)-th and its k-th emission.
BetweenEmits(tr, k) == SubSeq(tr, EmitPos(tr, k - 1) + 1, EmitPos(tr, k) - 1)

\* C6: a completed play() of a log with non-decreasing timestamps emitted
\* every event once, in log order, and slept between successive events for
\* exactly the difference of their timestamps, not at all when it is zero.
C6_PlayPacesByDelta ==
    (ppc = "returned" /\ play_ret = Unit /\ NonDecreasing(loaded)) =>
        /\ Len(Emits(trace)) = Len(loaded)
        /\ \A k \in 1..Len(loaded) :
              Emits(trace)[k] = Emit(loaded[k].event, TRUE)
        /\ \A k \in 2..Len(loaded) :
              LET d == loaded[k].timestamp_us - loaded[k - 1].timestamp_us
              IN  BetweenEmits(trace, k) = IF d = 0 THEN <<>> ELSE <<Sleep(d)>>

\* A pass over three events completed, with a positive and a zero delta.
C6_Witness ==
    /\ ppc = "returned"
    /\ play_ret = Unit
    /\ Len(loaded) = 3
    /\ loaded[1].timestamp_us < loaded[2].timestamp_us
    /\ loaded[2].timestamp_us = loaded[3].timestamp_us
    /\ Len(Emits(trace)) = 3

\* The emissions of a pass that failed at its k-th event: k-1 accepted
\* ones, of events 1..k-1, then the rejected one of event k.
FailedPass(tr, log) ==
    LET em == Emits(tr)
        k == Len(em)
    IN  /\ k \in 1..Len(log)
        /\ \A j \in 1..(k - 1) : em[j] = Emit(log[j].event, TRUE)
        /\ em[k] = Emit(log[k].event, FALSE)

\* C7: a rejected emission ends play() at once with an error, events
\* before it emitted once each, it and the later ones not (re)tried; the
\* error leaves play_macro, in loop mode too, without another pass.
C7_EmissionFailureAborts ==
    [][/\ (trace' # trace /\ trace' # <<>> /\ ~trace'[Len(trace')].ok) =>
             (ppc' = "returned" /\ play_ret' = [tag |-> "Err"])
       /\ (ppc' = "returned" /\ play_ret'.tag = "Err") =>
             FailedPass(trace', loaded')
       /\ (ppc = "returned" /\ play_ret.tag = "Err") =>
             /\ ppc' = "exit"
             /\ exit_status'.tag = "Err"
             /\ passes' = passes
             /\ trace' = trace]_vars

\* In loop mode the second pass failed at its second event and play_macro
\* returned the error.
C7_Witness ==
    /\ ppc = "exit"
    /\ exit_status.tag = "Err"
    /\ loop_forever
    /\ passes = 2
    /\ Len(loaded) = 3
    /\ Len(Emits(trace)) = 2

\* C8: with --loop a completed pass is followed by another call of play()
\* on the same log and play_macro returns only on an error; without it
\* play_macro returns Ok after exactly one pass.
C8_LoopRepeatsUntilError ==
    [][/\ loaded' = loaded
       /\ (ppc = "returned" /\ play_ret.tag = "Ok" /\ loop_forever) =>
             ppc' = "call"
       /\ ppc = "call" =>
             (trace' = <<>> /\ idx' = 1 /\ last_timestamp' = 0
              /\ ppc' \in {"loop", "returned"})
       /\ (ppc = "returned" /\ play_ret.tag = "Ok" /\ ~loop_forever) =>
             (ppc' = "exit" /\ exit_status' = Unit /\ passes = 1)
       /\ (ppc' = "exit" /\ loop_forever) => exit_status'.tag = "Err"]_vars

\* In loop mode a second pass over a two-event log has completed.
C8_Witness ==
    /\ loop_forever
    /\ passes = 2
    /\ ppc = "returned"
    /\ play_ret = Unit
    /\ Len(loaded) = 2
    /\ Len(Emits(trace)) = 2
\* ---------------------------------------------------------------------------
\* Claims about the DSL codec
\* ---------------------------------------------------------------------------
\* The degenerate empty state: nothing held, nothing moved, no duration.
Degenerate(st) ==
    /\ st.keys_pressed = {}
    /\ st.mouse_delta = <<0, 0>>
    /\ st.scroll_delta = <<0, 0>>
    /\ st.duration_ms = 0

\* A state that is one instruction of the grammar: a hold or tap of keys
\* the catalog names, a wait, a move, or a scroll along one axis by an
\* amount whose absolute value is an i32.
SingleInstruction(st) ==
    \/ /\ st.keys_pressed # {}
       /\ \A k \in st.keys_pressed : \E c \in KeyCatalog : c.code = k
       /\ st.mouse_delta = <<0, 0>>
       /\ st.scroll_delta = <<0, 0>>
    \/ /\ st.keys_pressed = {}
       /\ st.mouse_delta = <<0, 0>>
       /\ st.scroll_delta = <<0, 0>>
       /\ st.duration_ms > 0
    \/ /\ st.keys_pressed = {}
       /\ st.mouse_delta # <<0, 0>>
       /\ st.scroll_delta = <<0, 0>>
       /\ st.duration_ms = 0
    \/ /\ st.keys_pressed = {}
       /\ st.mouse_delta = <<0, 0>>
       /\ (st.scroll_delta[1] = 0) # (st.scroll_delta[2] = 0)
       /\ I32Min \notin {st.scroll_delta[1], st.scroll_delta[2]}
       /\ st.duration_ms = 0

\* C9 as stated: states without a degenerate one, written by save and read
\* back line by line (load having returned), come back as they were.
C9_RoundTripAnyStates ==
    (cpc = "done"
        /\ \A i \in 1..Len(macro_states) : ~Degenerate(macro_states[i]))
    => parsed = Ok(macro_states)

\* C9 as amended: the same for states that are each one instruction.
C9_RoundTripSingleInstructions ==
    (cpc \in {"done", "panicked"}
        /\ \A i \in 1..Len(macro_states) : SingleInstruction(macro_states[i]))
    => parsed = Ok(macro_states)

\* A hold of two keys followed by a scroll to the left has been written
\* and read back.
C9_Witness ==
    /\ cpc = "done"
    /\ Len(macro_states) = 2
    /\ macro_states[1] = MacroState(5, {KEY_CODE_W, KEY_CODE_A}, <<0, 0>>, <<0, 0>>)
    /\ macro_states[2] = MacroState(0, {}, <<0, 0>>, <<0, -2>>)
    /\ parsed = Ok(macro_states)
    /\ Find(file, "hold A+W for 5ms\nscroll left 2\n") > 0

\* Lines of src_lines that are malformed instructions.
MalformedAt == {i \in 1..Len(src_lines) : src_lines[i].malformed}

FirstMalformed == CHOOSE i \in MalformedAt : \A j \in MalformedAt : i <= j

\* C10: load of a file with a malformed instruction line returns an error,
\* and so no events, naming the 1-based number of the first such line,
\* blank and comment lines counted.
C10_LoadRejectsMalformedFile ==
    (cpc \in {"done", "panicked"} /\ MalformedAt # {}) =>
        /\ load_ret.tag = "Err"
        /\ StartsWith(load_ret.msg, "Line " \o DisplayNat(FirstMalformed) \o ": ")

\* A comment line, a valid instruction and then a malformed one: load
\* returned the error for line 3.
C10_Witness ==
    /\ cpc = "done"
    /\ Len(src_lines) = 3
    /\ src_lines[1].text = "# note"
    /\ src_lines[2].text = "move 10 -5"
    /\ src_lines[3].text = "wait 100"
    /\ load_ret = Err("Line 3: Duration must end with 'ms' or 's': 100")

\* The instructions a state calls for, by their first word, in the order
\* hold/tap, move, scroll vertical, scroll horizontal, trailing wait.
InstructionWords(st) ==
    (IF st.keys_pressed = {} THEN <<>>
     ELSE IF st.duration_ms > 0 THEN <<"hold">> ELSE <<"tap">>)
    \o (IF st.mouse_delta # <<0, 0>> THEN <<"move">> ELSE <<>>)
    \o (IF st.scroll_delta[1] # 0 THEN <<"scroll">> ELSE <<>>)
    \o (IF st.scroll_delta[2] # 0 THEN <<"scroll">> ELSE <<>>)
    \o (IF st.duration_ms > 0 /\ st.keys_pressed = {} THEN <<"wait">> ELSE <<>>)

\* The text format_state returned for st is one line per instruction of
\* st, in order, and each line parses on its own to a state.
OneLinePerInstruction(st, text, checks) ==
    LET ls == split(text, "\n")
        words == InstructionWords(st)
    IN  /\ Len(ls) = Len(words)
        /\ \A j \in 1..Len(ls) :
              /\ StartsWith(ls[j], words[j] \o " ")
              /\ parse_line(ls[j], checks).tag = "Ok"

\* C11: once save has written the states, the text of every state that is
\* not the degenerate empty one is its instructions on separate lines, in
\* the order hold/tap, move, scroll vertical, scroll horizontal, trailing
\* wait, and each of these lines parses without error to one state.
C11_OneInstructionPerLine ==
    cpc \in {"load", "done"} =>
        \A i \in 1..Len(macro_states) :
            ~Degenerate(macro_states[i]) =>
                OneLinePerInstruction(macro_states[i],
                    format_state(macro_states[i], overflow_checks).value,
                    overflow_checks)

\* The scroll_delta the line "scroll <direction> <n>" stands for.
ScrollDeltaOf(direction, n) ==
    CASE direction = "up" -> <<n, 0>>
      [] direction = "down" -> <<-n, 0>>
      [] direction = "left" -> <<0, -n>>
      [] direction = "right" -> <<0, n>>

\* The file save writes for one line.
SavedLine(line) == "# EvKey Macro\n# Layout: QWERTY\n\n" \o line \o "\n"

\* The line being parsed is "scroll <direction> <n>".
IsScrollLine(direction, n) ==
    src_lines = <<Line(ScrollLine(direction, n), FALSE)>>

\* C12 as stated: for every amount N each of the four scroll lines parses
\* to the delta of its direction, with duration 0, no keys and no motion,
\* and serializing that state gives the line back.  Read here for the
\* amounts whose negation is an i32, i32::MIN left aside.
C12_ScrollLineRoundTripAnyAmount ==
    \A direction \in ScrollDirections, n \in ScrollAmounts \ {I32Min} :
        (IsScrollLine(direction, n) /\ cpc # "parse") =>
            /\ parsed = Ok(MacroState(0, {}, <<0, 0>>, ScrollDeltaOf(direction, n)))
            /\ cpc # "save" => (cpc = "load" /\ file = SavedLine(ScrollLine(direction, n)))

\* C12 as amended: the mapping holds for every i32 amount whose negation
\* is an i32 where the direction negates it; down or left by i32::MIN
\* panics with overflow checks and gives i32::MIN without; the line comes
\* back from serialization when the amount is at least 1.
C12_ScrollLineRoundTripPositive ==
    \A direction \in ScrollDirections, n \in ScrollAmounts :
        (IsScrollLine(direction, n) /\ cpc # "parse") =>
            /\ IF n = I32Min /\ direction \in {"down", "left"}
                  THEN IF overflow_checks
                          THEN parsed = Panic /\ cpc = "panicked"
                          ELSE parsed = Ok(MacroState(0, {}, <<0, 0>>,
                                  IF direction = "down" THEN <<I32Min, 0>>
                                  ELSE <<0, I32Min>>))
                  ELSE parsed = Ok(MacroState(0, {}, <<0, 0>>,
                                              ScrollDeltaOf(direction, n)))
            /\ (n >= 1 /\ cpc # "save") =>
                  (cpc = "load" /\ file = SavedLine(ScrollLine(direction, n)))

\* "scroll left 2" has been parsed to (0,-2) and written back as it was.
C12_Witness ==
    /\ src_lines = <<Line("scroll left 2", FALSE)>>
    /\ parsed = Ok(MacroState(0, {}, <<0, 0>>, <<0, -2>>))
    /\ cpc = "load"
    /\ file = "# EvKey Macro\n# Layout: QWERTY\n\nscroll left 2\n"

\* A poll() call that was entered while recording and handled a press of
\* the toggle key: a Recording->Idle transition happened inside it.
StoppedInsidePoll == rec_at_entry /\ saw_press

\* C13: in the record loop, when a poll() call in which recording stopped
\* has returned, it returned true and is_recording() is false, so that the
\* loop is left; this for every batching of the events, several presses of
\* the toggle key in one call included.
C13_StopInsidePollObserved ==
    (op = "poll_return" /\ StoppedInsidePoll) =>
        (ret = [tag |-> "Ok", value |-> TRUE] /\ ~is_recording)
====
